---- MODULE Spec2Model ----
(***************************************************************************)
(* Model of src/main.py: fetch_and_save_data and the helpers it calls      *)
(* (db_config, query_postgres_db, save_data_to_nested_folders).            *)
(*                                                                         *)
(* Texts (symbol, timeframe, paths, SQL literals) are sequences of         *)
(* one-character strings, so that formatting and lexing are computed.      *)
(* A nanosecond timestamp is a record [s |-> whole seconds, n |-> the      *)
(* nanoseconds below the second]: Python integers are unbounded, the       *)
(* pair keeps every value within the model checker's integers.             *)
(***************************************************************************)
EXTENDS Integers, Sequences, FiniteSets, TLC

VARIABLES
    table,       \* content of bitstamp_data: a set of rows
    configFile,  \* the file at db_config_file: "missing" or its set of keys
    fs,          \* files on disk: path -> content
    dirs,        \* directories on disk
    pc,          \* position inside fetch_and_save_data ("idle": not running)
    args,        \* arguments of the running invocation
    cfgError,    \* exception raised by db_config in this invocation
    conn,        \* "none", "open", "closed"
    rows,        \* result of query_postgres_db, "unset" before it ran
    df,          \* the DataFrame, "None" while there is none
    result,      \* what the caller receives
    execError,   \* outcome of cursor.execute: "unset","none","syntax","database"
    saveError,   \* where save_data_to_nested_folders raised, "none" if nowhere
    connects,    \* calls of psycopg2.connect in this invocation
    connFailed,  \* psycopg2.connect raised OperationalError
    queries,     \* calls of cursor.execute in this invocation
    writes,      \* calls of save_data_to_nested_folders in this invocation
    runs,        \* invocations started so far
    fsBefore,    \* fs when the invocation started
    dirsBefore,  \* dirs when the invocation started
    archive      \* argument tuple -> path its archive was written to

vars == <<table, configFile, fs, dirs, pc, args, cfgError, conn, rows, df,
          result, execError, saveError, connects, connFailed, queries,
          writes, runs, fsBefore, dirsBefore, archive>>

----------------------------------------------------------------------------
(* Bounds and program constants *)

MaxRuns == 2

NanosPerSecond == 1000000000

----------------------------------------------------------------------------
(* Texts *)

Quote == "'"

Sep == "/"

Digit(d) == <<"0", "1", "2", "3", "4", "5", "6", "7", "8", "9">>[d + 1]

Pad2(n) == <<Digit((n \div 10) % 10), Digit(n % 10)>>

Pad4(n) == <<Digit((n \div 1000) % 10), Digit((n \div 100) % 10),
             Digit((n \div 10) % 10), Digit(n % 10)>>

----------------------------------------------------------------------------
(* Timestamps: start_ns / 1_000_000_000, datetime.utcfromtimestamp, strftime *)

\* A nanosecond count as Python's int: ns = s * NanosPerSecond + n.
Ns(s, n) == [s |-> s, n |-> n]

NsLess(a, b) == a.s < b.s \/ (a.s = b.s /\ a.n < b.n)

NsLeq(a, b) == a = b \/ NsLess(a, b)

\* start_ns / 1_000_000_000: the quotient as seconds and a fraction counted
\* in nanoseconds (the double nearest to it agrees for the modelled inputs).
TrueDiv(ns) == [whole |-> ns.s, frac |-> ns.n]

\* round(frac * 1e6), ties to even
RoundMicros(frac) ==
    LET q == frac \div (NanosPerSecond \div 1000000)
        r == frac % (NanosPerSecond \div 1000000)
        half == (NanosPerSecond \div 1000000) \div 2
    IN  IF r > half \/ (r = half /\ q % 2 = 1) THEN q + 1 ELSE q

\* proleptic Gregorian date of a day count since 1970-01-01
CivilFromDays(days) ==
    LET z   == days + 719468
        era == z \div 146097
        doe == z - era * 146097
        yoe == (doe - doe \div 1460 + doe \div 36524 - doe \div 146096) \div 365
        doy == doe - (365 * yoe + yoe \div 4 - yoe \div 100)
        mp  == (5 * doy + 2) \div 153
        d   == doy - (153 * mp + 2) \div 5 + 1
        m   == IF mp < 10 THEN mp + 3 ELSE mp - 9
        y   == yoe + era * 400 + (IF m <= 2 THEN 1 ELSE 0)
    IN  [year |-> y, month |-> m, day |-> d]

\* datetime.utcfromtimestamp(t): microseconds rounded, a full second carried
utcfromtimestamp(t) ==
    LET us    == RoundMicros(t.frac)
        carry == IF us >= 1000000 THEN 1 ELSE 0
        secs  == t.whole + carry
        date  == CivilFromDays(secs \div 86400)
        sod   == secs % 86400
    IN  [year |-> date.year, month |-> date.month, day |-> date.day,
         hour |-> sod \div 3600, minute |-> (sod % 3600) \div 60,
         second |-> sod % 60, microsecond |-> us - carry * 1000000]

\* A variant that renders the time of day with the ISO separator.
strftime_colon(dt) ==
    Pad4(dt.year) \o <<"-">> \o Pad2(dt.month) \o <<"-">> \o Pad2(dt.day)
      \o <<"_">> \o Pad2(dt.hour) \o <<":">> \o Pad2(dt.minute)
      \o <<":">> \o Pad2(dt.second)

\* dt.strftime("%Y-%m-%d_%H-%M-%S")
strftime(dt) ==
    Pad4(dt.year) \o <<"-">> \o Pad2(dt.month) \o <<"-">> \o Pad2(dt.day)
      \o <<"_">> \o Pad2(dt.hour) \o <<"-">> \o Pad2(dt.minute)
      \o <<"-">> \o Pad2(dt.second)

----------------------------------------------------------------------------
(* Paths: os.path.join, os.makedirs *)

JoinStep(path, b) ==
    IF b # <<>> /\ Head(b) = Sep THEN b
    ELSE IF path = <<>> \/ path[Len(path)] = Sep THEN path \o b
    ELSE path \o <<Sep>> \o b

RECURSIVE JoinAll(_, _)
JoinAll(path, rest) ==
    IF rest = <<>> THEN path ELSE JoinAll(JoinStep(path, Head(rest)), Tail(rest))

\* os.path.join(a, *p)
os_path_join(parts) == JoinAll(Head(parts), Tail(parts))

\* the directories os.makedirs(folder, exist_ok=True) leaves in existence
makedirs(folder) ==
    { SubSeq(folder, 1, i) : i \in { j \in 1..Len(folder) :
          (j = Len(folder) \/ folder[j + 1] = Sep) /\ folder[j] # Sep } }

\* lines 111-115: the folder and the file of an archive
FolderPath(a) == os_path_join(<<a.data_root, a.symbol, a.broker, a.timeframe>>)

FileName(a) ==
    strftime(utcfromtimestamp(TrueDiv(a.start_ns))) \o <<"_">>
      \o strftime(utcfromtimestamp(TrueDiv(a.end_ns)))
      \o <<".", "p", "k", "l">>

FilePath(a) == os_path_join(<<FolderPath(a), FileName(a)>>)

----------------------------------------------------------------------------
(* Configuration: db_config *)

RequiredKeys == {"host", "port", "dbname", "user", "password"}

\* A variant that accepts whatever keys the file holds.
db_config_unchecked(file) ==
    IF ~file.exists THEN [error |-> "FileNotFoundError", params |-> {}]
    ELSE [error |-> "none", params |-> file.keys]

db_config(file) ==
    IF ~file.exists THEN [error |-> "FileNotFoundError", params |-> {}]
    ELSE IF RequiredKeys \ file.keys # {}
         THEN [error |-> "ValueError", params |-> {}]
         ELSE [error |-> "none", params |-> file.keys]

----------------------------------------------------------------------------
(* The query: the f-string of lines 167-175 and its execution by the server *)

\* '{symbol}' and '{timeframe}': the text placed between two quotes, as is
Interpolate(text) == <<Quote>> \o text \o <<Quote>>

BuildQuery(a) ==
    [symbol    |-> Interpolate(a.symbol),
     timeframe |-> Interpolate(a.timeframe),
     lo        |-> a.start_ns,
     hi        |-> a.end_ns]

\* How the server reads a quoted text that starts at lit[1]: two quotes in a
\* row stand for one quote character, a single quote ends the literal.  The
\* literal is well formed when it ends at the last character of lit; when it
\* ends earlier, or swallows the closing quote, what follows it is no longer
\* the statement that was written (for texts of letters and quotes: none).
RECURSIVE ScanLiteral(_, _, _)
ScanLiteral(lit, i, acc) ==
    IF i > Len(lit) THEN [ok |-> FALSE, value |-> acc]
    ELSE IF lit[i] # Quote THEN ScanLiteral(lit, i + 1, Append(acc, lit[i]))
    ELSE IF i < Len(lit) /\ lit[i + 1] = Quote
         THEN ScanLiteral(lit, i + 2, Append(acc, Quote))
         ELSE [ok |-> (i = Len(lit)), value |-> acc]

SqlLiteral(lit) == ScanLiteral(lit, 2, <<>>)

\* WHERE symbol = .. AND timeframe = .. AND epoch_open_time >= lo
\*   AND epoch_open_time < hi
Select(q, tbl) ==
    { r \in tbl : /\ r[1] = SqlLiteral(q.symbol).value
                  /\ r[2] = SqlLiteral(q.timeframe).value
                  /\ NsLeq(q.lo, r[3])
                  /\ NsLess(r[3], q.hi) }

RECURSIVE Orderings(_)
Orderings(S) ==
    IF S = {} THEN { <<>> }
    ELSE UNION { { <<r>> \o rest : rest \in Orderings(S \ {r}) } : r \in S }

\* ORDER BY epoch_open_time ASC: every ordering that is ascending
OrderBy(S) ==
    { seq \in Orderings(S) :
        \A i \in 1..Len(seq) : \A j \in i..Len(seq) : NsLeq(seq[i][3], seq[j][3]) }

\* the outcomes cursor.execute + cursor.fetchall can have
Execute(q, tbl) ==
    IF ~SqlLiteral(q.symbol).ok \/ ~SqlLiteral(q.timeframe).ok
    THEN { [error |-> "syntax", rows |-> <<>>] }
    ELSE { [error |-> "database", rows |-> <<>>] }
           \cup { [error |-> "none", rows |-> seq] : seq \in OrderBy(Select(q, tbl)) }

\* A variant without the except clause: the error leaves the function.
query_postgres_db_reraise(outcome) ==
    [raised |-> outcome.error # "none", rows |-> outcome.rows]

\* lines 81-86: the rows, or [] when execute or fetchall raised; the except
\* clause catches Exception, so nothing is raised to the caller
query_postgres_db(outcome) ==
    [raised |-> FALSE,
     rows   |-> IF outcome.error # "none" THEN <<>> ELSE outcome.rows]

Columns == <<"symbol", "timeframe", "epoch_open_time">>

None == [none |-> TRUE]

\* pd.DataFrame(rows, columns=column_names)
DataFrame(rws, cols) == [none |-> FALSE, columns |-> cols, data |-> rws]

\* A variant without the emptiness test: a frame is built from any rows.
Assemble_always(rws) == [df |-> DataFrame(rws, Columns), pc |-> "save"]

\* lines 181-186: no rows, no frame and nothing to save
Assemble(rws) ==
    IF rws = <<>> THEN [df |-> None, pc |-> "close"]
    ELSE [df |-> DataFrame(rws, Columns), pc |-> "save"]

----------------------------------------------------------------------------
(* Persistence: save_data_to_nested_folders *)

\* pickle.dump(df, f) on a file opened "wb": the file holds this one object
Pickled(frame) == [complete |-> TRUE, object |-> frame]

\* what an interrupted dump leaves in the file opened "wb"
Truncated == [complete |-> FALSE]

\* A variant that appends to the file instead of replacing it.
WriteFile_append(files, path, content) ==
    (path :> ((IF path \in DOMAIN files THEN files[path] ELSE <<>>)
                \o <<content>>)) @@ files

\* open(file_path, "wb") + pickle.dump: the file holds this content alone
WriteFile(files, path, content) == (path :> <<content>>) @@ files

\* A variant that logs the filesystem error instead of letting it out.
save_data_quiet(files, folders, frame, a, failure) ==
    [dirs   |-> IF failure = "makedirs" THEN folders
                ELSE folders \cup makedirs(FolderPath(a)),
     fs     |-> IF failure \in {"makedirs", "open"} THEN files
                ELSE IF failure = "dump"
                     THEN WriteFile(files, FilePath(a), Truncated)
                     ELSE WriteFile(files, FilePath(a), Pickled(frame)),
     raised |-> FALSE,
     path   |-> FilePath(a)]

\* The effect of lines 107-121 when the step named by failure raises
\* ("none": no step raises).
save_data_to_nested_folders(files, folders, frame, a, failure) ==
    LET folder_path == FolderPath(a)
        file_path   == FilePath(a)
    IN  [dirs   |-> IF failure = "makedirs" THEN folders
                    ELSE folders \cup makedirs(folder_path),
         fs     |-> IF failure \in {"makedirs", "open"} THEN files
                    ELSE IF failure = "dump"
                         THEN WriteFile(files, file_path, Truncated)
                         ELSE WriteFile(files, file_path, Pickled(frame)),
         raised |-> failure # "none",
         path   |-> file_path]

----------------------------------------------------------------------------
(* Inputs *)

SymA == <<"A">>

SymB == <<"B">>

\* a symbol that holds an apostrophe
SymQ == <<"O", "'", "R">>

Symbols == {SymA, SymB, SymQ}

Tf1m == <<"1", "m">>

Tf5m == <<"5", "m">>

Timeframes == {Tf1m, Tf5m}

Brokers == { <<"b", "i", "t", "s", "t", "a", "m", "p">> }

\* "../data", as DEFAULT_DATA_ROOT ends
DataRoots == { <<".", ".", "/", "d", "a", "t", "a">> }

Epoch == Ns(0, 0)

\* 2000-02-29T23:59:59Z
LeapDay == Ns(951868799, 0)

\* 2018-07-14T07:30:00Z, one nanosecond after it, one nanosecond before it
T0730 == Ns(1531553400, 0)

T0730Plus == Ns(1531553400, 1)

T0730Minus == Ns(1531553399, 999999999)

\* 2018-07-14T07:40:00Z
T0740 == Ns(1531554000, 0)

Intervals ==
    { <<T0730, T0740>>, <<T0730Plus, T0740>>, <<T0730Minus, T0740>>,
      <<T0730, T0730>>, <<Epoch, T0730>>, <<LeapDay, T0730Plus>>,
      <<T0740, T0730>> }

ArgSets ==
    { [symbol |-> sy, broker |-> br, timeframe |-> tf, start_ns |-> iv[1],
       end_ns |-> iv[2], data_root |-> dr] :
        sy \in Symbols, br \in Brokers, tf \in Timeframes, iv \in Intervals,
        dr \in DataRoots }

AllRows ==
    { <<SymA, Tf1m, T0730>>, <<SymA, Tf1m, T0730Plus>>, <<SymA, Tf1m, T0740>>,
      <<SymA, Tf1m, LeapDay>>, <<SymB, Tf1m, T0730>>, <<SymA, Tf5m, T0730>>,
      <<SymQ, Tf1m, T0730>> }

Tables ==
    { {}, AllRows,
      { <<SymA, Tf1m, T0730>>, <<SymA, Tf1m, T0740>>, <<SymQ, Tf1m, T0730>> },
      { <<SymB, Tf1m, T0730>>, <<SymA, Tf5m, T0730>> } }

ConfigFiles ==
    { [exists |-> FALSE, keys |-> {}],
      [exists |-> TRUE, keys |-> RequiredKeys],
      [exists |-> TRUE, keys |-> RequiredKeys \ {"password"}],
      [exists |-> TRUE, keys |-> {}] }

Pending == [kind |-> "pending"]

Returned(v) == [kind |-> "return", value |-> v]

Raised(e) == [kind |-> "raise", exc |-> e]

NoFiles == [p \in {} |-> <<>>]

\* the paths an argument tuple's archive has been written to, and how often
Recorded(arch, a, path) ==
    IF a \in DOMAIN arch
    THEN [paths |-> arch[a].paths \cup {path}, count |-> arch[a].count + 1]
    ELSE [paths |-> {path}, count |-> 1]

NoArgs == [symbol |-> <<>>, broker |-> <<>>, timeframe |-> <<>>,
           start_ns |-> Epoch, end_ns |-> Epoch, data_root |-> <<>>]

\* A variant whose except clause lets the error out again.
ConnectOutcome_raise(reachable) ==
    IF reachable
    THEN [conn |-> "open", failed |-> FALSE, result |-> Pending, pc |-> "query"]
    ELSE [conn |-> "none", failed |-> TRUE,
          result |-> Raised("OperationalError"), pc |-> "done"]

\* lines 160-164: psycopg2.connect, OperationalError logged and None returned
ConnectOutcome(reachable) ==
    IF reachable
    THEN [conn |-> "open", failed |-> FALSE, result |-> Pending, pc |-> "query"]
    ELSE [conn |-> "none", failed |-> TRUE,
          result |-> Returned(None), pc |-> "done"]

----------------------------------------------------------------------------
(* The state machine *)

Init ==
    /\ table \in Tables
    /\ configFile \in ConfigFiles
    /\ fs = NoFiles
    /\ dirs = {}
    /\ pc = "idle"
    /\ args = NoArgs
    /\ cfgError = "none"
    /\ conn = "none"
    /\ rows = <<>>
    /\ df = None
    /\ result = Pending
    /\ execError = "unset"
    /\ saveError = "none"
    /\ connects = 0
    /\ connFailed = FALSE
    /\ queries = 0
    /\ writes = 0
    /\ runs = 0
    /\ fsBefore = NoFiles
    /\ dirsBefore = {}
    /\ archive = [a \in {} |-> <<>>]

\* the caller invokes fetch_and_save_data(...)
Call ==
    /\ pc = "idle"
    /\ runs < MaxRuns
    /\ \E a \in ArgSets : args' = a
    /\ pc' = "config"
    /\ runs' = runs + 1
    /\ cfgError' = "none"
    /\ conn' = "none"
    /\ rows' = <<>>
    /\ df' = None
    /\ result' = Pending
    /\ execError' = "unset"
    /\ saveError' = "none"
    /\ connects' = 0
    /\ connFailed' = FALSE
    /\ queries' = 0
    /\ writes' = 0
    /\ fsBefore' = fs
    /\ dirsBefore' = dirs
    /\ UNCHANGED <<table, configFile, fs, dirs, archive>>

\* lines 152-157
LoadConfig ==
    /\ pc = "config"
    /\ LET c == db_config(configFile)
       IN  /\ cfgError' = c.error
           /\ IF c.error # "none"
              THEN /\ result' = Returned(None)
                   /\ pc' = "done"
              ELSE /\ result' = result
                   /\ pc' = "connect"
    /\ UNCHANGED <<table, configFile, fs, dirs, args, conn, rows, df,
                   execError, saveError, connects, connFailed, queries,
                   writes, runs, fsBefore, dirsBefore, archive>>

\* lines 159-164
Connect ==
    /\ pc = "connect"
    /\ connects' = connects + 1
    /\ \E reachable \in BOOLEAN :
         LET out == ConnectOutcome(reachable)
         IN  /\ conn' = out.conn
             /\ connFailed' = out.failed
             /\ result' = out.result
             /\ pc' = out.pc
    /\ UNCHANGED <<table, configFile, fs, dirs, args, cfgError, rows, df,
                   execError, saveError, queries, writes, runs, fsBefore,
                   dirsBefore, archive>>

\* lines 166-186; an exception out of query_postgres_db would leave through
\* both with blocks like any other
RunQuery ==
    /\ pc = "query"
    /\ queries' = queries + 1
    /\ \E outcome \in Execute(BuildQuery(args), table) :
         LET got == query_postgres_db(outcome)
         IN  /\ execError' = outcome.error
             /\ IF got.raised
                THEN /\ rows' = rows
                     /\ df' = df
                     /\ result' = Raised("DatabaseError")
                     /\ pc' = "done"
                ELSE /\ rows' = got.rows
                     /\ df' = Assemble(got.rows).df
                     /\ result' = result
                     /\ pc' = Assemble(got.rows).pc
    /\ UNCHANGED <<table, configFile, fs, dirs, args, cfgError, conn,
                   saveError, connects, connFailed, writes, runs, fsBefore,
                   dirsBefore, archive>>

\* lines 188-201: an exception leaves through both with blocks, and the
\* connection's __exit__ rolls back without closing
Save ==
    /\ pc = "save"
    /\ writes' = writes + 1
    /\ \E failure \in {"none", "makedirs", "open", "dump"} :
         LET out == save_data_to_nested_folders(fs, dirs, df, args, failure)
         IN  /\ fs' = out.fs
             /\ dirs' = out.dirs
             /\ saveError' = failure
             /\ IF out.raised
                THEN /\ result' = Raised("OSError")
                     /\ pc' = "done"
                     /\ archive' = archive
                ELSE /\ result' = result
                     /\ pc' = "close"
                     /\ archive' = (args :> Recorded(archive, args, out.path))
                                      @@ archive
    /\ UNCHANGED <<table, configFile, args, cfgError, conn, rows, df,
                   execError, connects, connFailed, queries, runs, fsBefore,
                   dirsBefore>>

\* lines 203-204
Close ==
    /\ pc = "close"
    /\ conn' = "closed"
    /\ result' = Returned(df)
    /\ pc' = "done"
    /\ UNCHANGED <<table, configFile, fs, dirs, args, cfgError, rows, df,
                   execError, saveError, connects, connFailed, queries,
                   writes, runs, fsBefore, dirsBefore, archive>>

\* the caller has the result; the next invocation may start
Return ==
    /\ pc = "done"
    /\ pc' = "idle"
    /\ UNCHANGED <<table, configFile, fs, dirs, args, cfgError, conn, rows, df,
                   result, execError, saveError, connects, connFailed,
                   queries, writes, runs, fsBefore, dirsBefore, archive>>

Next == Call \/ LoadConfig \/ Connect \/ RunQuery \/ Save \/ Close \/ Return

Spec == Init /\ [][Next]_vars

----------------------------------------------------------------------------
(* Vocabulary of the properties *)

\* the configuration file is absent or lacks a required key
ConfigIncomplete ==
    ~configFile.exists \/ ~(RequiredKeys \subseteq configFile.keys)

QueryFailed == execError \in {"syntax", "database"}

\* the rows of the table the request [start_ns, end_ns) asks for
Requested ==
    { r \in table : /\ r[1] = args.symbol
                    /\ r[2] = args.timeframe
                    /\ NsLeq(args.start_ns, r[3])
                    /\ NsLess(r[3], args.end_ns) }

\* this invocation left a complete archive of the fetched rows on disk
WrittenNow ==
    /\ writes = 1
    /\ saveError = "none"
    /\ FilePath(args) \in DOMAIN fs
    /\ fs[FilePath(args)] = <<Pickled(DataFrame(rows, Columns))>>

\* reading a rendered timestamp back, by counting years and months
DigitVal(c) == CHOOSE d \in 0..9 : Digit(d) = c

RECURSIVE Num(_)
Num(txt) ==
    IF txt = <<>> THEN 0
    ELSE 10 * Num(SubSeq(txt, 1, Len(txt) - 1)) + DigitVal(txt[Len(txt)])

IsLeap(y) == (y % 4 = 0 /\ y % 100 # 0) \/ y % 400 = 0

LeapsBefore(y) == (y - 1) \div 4 - (y - 1) \div 100 + (y - 1) \div 400

DaysBeforeMonth(y, m) ==
    <<0, 31, 59, 90, 120, 151, 181, 212, 243, 273, 304, 334>>[m]
      + (IF m > 2 /\ IsLeap(y) THEN 1 ELSE 0)

DigitChars == { Digit(d) : d \in 0..9 }

\* txt has the shape YYYY-MM-DD_HH-MM-SS
TimestampShaped(txt) ==
    /\ Len(txt) = 19
    /\ \A i \in 1..19 :
         IF i \in {5, 8, 14, 17} THEN txt[i] = "-"
         ELSE IF i = 11 THEN txt[i] = "_"
         ELSE txt[i] \in DigitChars

EpochSecondsOf(txt) ==
    LET y  == Num(SubSeq(txt, 1, 4))
        mo == Num(SubSeq(txt, 6, 7))
        d  == Num(SubSeq(txt, 9, 10))
        h  == Num(SubSeq(txt, 12, 13))
        mi == Num(SubSeq(txt, 15, 16))
        sc == Num(SubSeq(txt, 18, 19))
        days == 365 * (y - 1970) + LeapsBefore(y) - LeapsBefore(1970)
                  + DaysBeforeMonth(y, mo) + d - 1
    IN  days * 86400 + h * 3600 + mi * 60 + sc

\* path is <data_root>/<symbol>/<broker>/<timeframe>/<start>_<end>.pkl with
\* both timestamps shaped, free of colons, and naming the UTC second of the
\* instant (exactly for whole seconds, else that second or the next)
ArchiveLayout(a, path) ==
    LET prefix == a.data_root \o <<Sep>> \o a.symbol \o <<Sep>> \o a.broker
                    \o <<Sep>> \o a.timeframe \o <<Sep>>
        name   == SubSeq(path, Len(prefix) + 1, Len(path))
        first  == SubSeq(name, 1, 19)
        second == SubSeq(name, 21, 39)
    IN  /\ Len(path) = Len(prefix) + 43
        /\ SubSeq(path, 1, Len(prefix)) = prefix
        /\ \A i \in 1..Len(name) : name[i] \notin {":", Sep}
        /\ name[20] = "_"
        /\ SubSeq(name, 40, 43) = <<".", "p", "k", "l">>
        /\ TimestampShaped(first)
        /\ TimestampShaped(second)
        /\ EpochSecondsOf(first) \in
             (IF a.start_ns.n = 0 THEN {a.start_ns.s}
              ELSE {a.start_ns.s, a.start_ns.s + 1})
        /\ EpochSecondsOf(second) \in
             (IF a.end_ns.n = 0 THEN {a.end_ns.s}
              ELSE {a.end_ns.s, a.end_ns.s + 1})

Text_2018_07_14_07_30_00 ==
    <<"2", "0", "1", "8", "-", "0", "7", "-", "1", "4", "_",
      "0", "7", "-", "3", "0", "-", "0", "0">>

----------------------------------------------------------------------------
(* Properties *)

C2_ConnectionClosedAtExit ==
    pc = "done" => conn # "open"

\* C3 (as stated): a connection failure gives the caller the absent table,
\* a query execution failure gives the caller an empty table, not the
\* absent one.
C3_FailuresDistinguishable ==
    /\ (pc = "done" /\ connFailed) => result = Returned(None)
    /\ (pc = "done" /\ QueryFailed) =>
           (result.kind = "return" /\ result.value # None)

\* C3 (amended): a connection failure returns None before any query runs; a
\* query execution failure makes query_postgres_db return zero rows on the
\* open connection, which is then closed, and fetch_and_save_data returns
\* None as well: the caller receives the same value in both cases.
C3_FailuresBothReturnNone ==
    /\ (pc = "done" /\ connFailed) =>
           (result = Returned(None) /\ queries = 0 /\ execError = "unset")
    /\ (pc = "done" /\ QueryFailed) =>
           /\ result = Returned(None)
           /\ rows = <<>>
           /\ queries = 1
           /\ ~connFailed
           /\ conn = "closed"
           /\ writes = 0

C3_Witness ==
    /\ pc = "done"
    /\ execError = "database"
    /\ Requested # {}
    /\ result = Returned(None)

\* C4: when psycopg2.connect raises OperationalError, the invocation raises
\* nothing, returns None, executes no query and writes no file or directory.
C4_ConnectFailureIsSoft ==
    (connFailed /\ pc # "idle") =>
        /\ pc = "done"
        /\ result = Returned(None)
        /\ queries = 0
        /\ writes = 0
        /\ fs = fsBefore
        /\ dirs = dirsBefore

C4_Witness ==
    /\ pc = "done"
    /\ connFailed
    /\ connects = 1
    /\ Requested # {}

\* C5: for every table and every (symbol, timeframe, start_ns, end_ns), the
\* rows obtained are exactly the requested rows in ascending
\* epoch_open_time order (the server itself not failing); with
\* start_ns = end_ns there are none, no table results and no file is written.
C5_RowsAreTheRequestedRows ==
    /\ (pc \in {"save", "close"} /\ execError # "database") =>
           rows \in OrderBy(Requested)
    /\ (pc = "done" /\ args.start_ns = args.end_ns) =>
           (rows = <<>> /\ result = Returned(None) /\ fs = fsBefore)

\* C6 (as stated): in every invocation an archive file is written exactly
\* when the query returned at least one row, and exactly then the function
\* returns a table, which holds the fetched rows; else it returns None.
C6_FileIffRows ==
    pc = "done" =>
        /\ WrittenNow <=> rows # <<>>
        /\ result = Returned(IF rows = <<>> THEN None
                             ELSE DataFrame(rows, Columns))

\* C6 (amended): in every invocation that returns to its caller, an archive
\* file is written exactly when the query returned at least one row, and
\* exactly then the function returns a table, never empty, holding the
\* fetched rows under the column labels; else it returns None.  An
\* invocation in which persisting raises has fetched rows but leaves no
\* complete archive and returns nothing.  Without rows nothing is written.
C6_FileIffRowsWhenReturning ==
    pc = "done" =>
        /\ result.kind \in {"return", "raise"}
        /\ result.kind = "return" =>
             /\ WrittenNow <=> rows # <<>>
             /\ result.value = (IF rows = <<>> THEN None
                                ELSE DataFrame(rows, Columns))
             /\ result.value # None => result.value.data # <<>>
        /\ result.kind = "raise" =>
             (rows # <<>> /\ ~WrittenNow /\ saveError # "none")
        /\ rows = <<>> => (fs = fsBefore /\ dirs = dirsBefore /\ writes = 0)

C6_Witness ==
    /\ pc = "done"
    /\ result.kind = "return"
    /\ Len(rows) >= 2
    /\ WrittenNow

C8_FilesystemErrorPropagates ==
    /\ writes <= 1
    /\ (saveError # "none" /\ pc # "idle") =>
           /\ pc = "done"
           /\ result = Raised("OSError")
           /\ writes = 1

C8_Witness ==
    /\ pc = "done"
    /\ saveError = "open"
    /\ result.kind = "raise"

\* C9 (as stated): a run that writes its archive uses the one path of its
\* argument tuple, leaves there the table of this run alone, and leaves the
\* archives of all other argument tuples as they were.
C9_OtherTuplesUntouched ==
    (pc = "done" /\ result.kind = "return" /\ writes = 1) =>
        /\ Cardinality(archive[args].paths) = 1
        /\ fs[FilePath(args)] = <<Pickled(result.value)>>
        /\ \A t \in DOMAIN archive \ {args} : \A path \in archive[t].paths :
             path \in DOMAIN fsBefore => fs[path] = fsBefore[path]

\* C9 (amended): a run that writes its archive uses the one path of its
\* argument tuple every time, leaves there exactly one object, the table of
\* this run (overwritten, never appended), and leaves the file at every
\* other path as it was.  Argument tuples whose start and end render to the
\* same second-resolution names share a path, so one overwrites the other.
C9_IdempotentPerPath ==
    /\ \A t \in DOMAIN archive : Cardinality(archive[t].paths) = 1
    /\ (pc = "done" /\ result.kind = "return" /\ writes = 1) =>
         \E path \in archive[args].paths :
            /\ fs[path] = <<Pickled(result.value)>>
            /\ DOMAIN fs = DOMAIN fsBefore \cup {path}
            /\ \A other \in DOMAIN fsBefore \ {path} :
                 fs[other] = fsBefore[other]

C9_Witness ==
    /\ pc = "done"
    /\ result.kind = "return"
    /\ writes = 1
    /\ archive[args].count = 2
    /\ Cardinality(DOMAIN archive) = 1

\* C10: an invocation opens at most one connection and runs one query on
\* it, and the connection is closed before the archive path is derived and
\* the file written.
C10_ClosedBeforePersisting ==
    /\ connects <= 1
    /\ queries <= 1
    /\ pc = "save" => conn = "closed"

====
